---- MODULE Spec2Model ----
(***************************************************************************)
(* Model of homelab-main.py: the BLE scan window (scan_govee_devices and   *)
(* its callback), the HomelabAPIClient requests, and main()'s five-step    *)
(* reconciliation against the remote inventory service.                    *)
(*                                                                         *)
(* Strings that the code transforms (addresses: .upper(); parameter        *)
(* names: .lower()) are sequences of one-character strings, so the         *)
(* conversions are computed.  Temperatures and humidities are integers in  *)
(* tenths (the code rounds to one decimal place).                          *)
(***************************************************************************)
EXTENDS Integers, Sequences, FiniteSets, TLC

VARIABLES
    pc,                 \* position of the process in main() / the client
    API_KEY,            \* module-level configuration, "" when unset
    adLog,              \* history: advertisements delivered in this window
    found_devices,      \* scan_govee_devices.found_devices, insertion order
    scanned_devices,    \* main(): result of the scan
    remote,             \* the remote service's devices (with parameters)
    remote0,            \* history: remote at the start of the current run
    devices,            \* get_devices(): the list response
    detailed_devices,   \* get_devices(): records collected so far
    mac_to_device,      \* main(): upper-cased serial number -> record
    bt_device_type_id,  \* main(): resolved type id, or None
    i,                  \* main(): index of the current scanned device
    j,                  \* main(): index of the current parameter name
    param_name_to_id,   \* main(): name -> id of the device being checked
    device_parameters,  \* main(): upper-cased mac -> (name -> id)
    overall_success,    \* main(): step 5 accumulator
    exit_code,          \* return value of main(), NoExit while running
    aborted,            \* history: main() left through `except Exception`
    call,               \* frame of post_timeseries_data
    reqLog,             \* history: requests issued in the current run
    postCalls,          \* history: post_timeseries_data calls of this run
    run,                \* history: number of the current run
    firstRunComplete,   \* history: the previous run completed its creations
    faults,             \* history: client calls that met a non-nominal response
    step,               \* history: step of the reconciliation reached by this run
    stdout,             \* the primary output: the JSON documents printed
    interrupted         \* history: requests issued when KeyboardInterrupt was raised, or None

vars == << pc, API_KEY, adLog, found_devices, scanned_devices, remote,
           remote0, devices, detailed_devices, mac_to_device,
           bt_device_type_id, i, j, param_name_to_id, device_parameters,
           overall_success, exit_code, aborted, call, reqLog, postCalls, run,
           firstRunComplete, faults, step, stdout, interrupted >>

-----------------------------------------------------------------------------
(* Program constants *)

EXIT_SUCCESS == 0
EXIT_FAILURE == 1
API_DEFAULT_RETRIES == 1
MAIN_POST_RETRIES == 1
MFG_H5075 == 60552
MFG_H5179 == 34817
BT_DEVICE_TYPE_NAME == "Bluetooth device"

(* Bounds of the model *)

MaxEvents == 2
MaxFaults == 1
MaxRetries == 3
MaxRuns == 2

(* Values standing for Python's None and for "main() has not returned" *)
None == -1
NoExit == -1

-----------------------------------------------------------------------------
(* Strings *)

UpperChar(c) ==
    CASE c = "a" -> "A" [] c = "b" -> "B" [] c = "c" -> "C"
      [] c = "d" -> "D" [] c = "e" -> "E" [] c = "f" -> "F"
      [] c = "t" -> "T" [] c = "h" -> "H"
      [] OTHER -> c

LowerChar(c) ==
    CASE c = "A" -> "a" [] c = "B" -> "b" [] c = "C" -> "c"
      [] c = "D" -> "d" [] c = "E" -> "e" [] c = "F" -> "f"
      [] c = "T" -> "t" [] c = "H" -> "h"
      [] OTHER -> c

Upper(s) == [k \in DOMAIN s |-> UpperChar(s[k])]
Lower(s) == [k \in DOMAIN s |-> LowerChar(s[k])]

(* s[0:n] *)
Prefix(s, n) == SubSeq(s, 1, IF Len(s) < n THEN Len(s) ELSE n)

(* The required parameter names, in the iteration order of the dict. *)
TEMPERATURE == <<"t","e","m","p">>
HUMIDITY    == <<"h","u","m">>
BATTERY     == <<"b","a","t">>
required_parameters == << TEMPERATURE, HUMIDITY, BATTERY >>

-----------------------------------------------------------------------------
(* Measurement decoders.  A payload is a sequence of bytes; Python index n *)
(* is index n+1 here.                                                      *)

(* round(x / 100, 1) for an integer x of hundredths, as tenths.  round()   *)
(* rounds the double nearest to x / 100, so a decimal tie (x ending in 5)  *)
(* goes where that double lies: away from zero for the magnitudes of       *)
(* RoundTiesUp, towards zero for the other ties below RoundTieLimit.  The  *)
(* sample payloads carry no tie of a larger magnitude; for those the even  *)
(* tenth is taken.                                                         *)
RoundTieLimit == 300
RoundTiesUp == { 5, 45, 55, 65, 75, 105, 135, 155, 175, 185, 235, 245,
                 275, 285, 295 }

Round1(x) ==
    LET m == IF x < 0 THEN 0 - x ELSE x
        q == m \div 10
        r == m % 10
        up == IF r # 5 THEN r > 5
              ELSE IF m < RoundTieLimit THEN m \in RoundTiesUp
              ELSE q % 2 = 1
        t == IF up THEN q + 1 ELSE q
    IN  IF x < 0 THEN 0 - t ELSE t

LE16(lo, hi) == lo + 256 * hi

(* Signed16 without the two's complement of line 278 *)
Signed16_Unsigned(u) == u

Signed16(u) == IF u >= 32768 THEN u - 65536 ELSE u

Raised == [kind |-> "raise", temperature |-> 0, humidity |-> 0, battery |-> 0]
NoMeasurement == [kind |-> "none", temperature |-> 0, humidity |-> 0, battery |-> 0]
Decoded(t, h, b) == [kind |-> "ok", temperature |-> t, humidity |-> h, battery |-> b]

(* decode_5074 reading a short payload as if it were padded with zeros *)
decode_5074_Padded(bytes_data) ==
    LET b == bytes_data \o << 0, 0, 0, 0, 0, 0 >>
    IN  Decoded(Round1(Signed16(LE16(b[2], b[3]))),
                Round1(Signed16(LE16(b[4], b[5]))),
                b[6])

decode_5074(bytes_data) ==
    IF Len(bytes_data) < 6 THEN Raised
    ELSE Decoded(Round1(Signed16(LE16(bytes_data[2], bytes_data[3]))),
                 Round1(Signed16(LE16(bytes_data[4], bytes_data[5]))),
                 bytes_data[6])

decode_5179(mfg_data) ==
    IF Len(mfg_data) < 9 THEN Raised
    ELSE Decoded(Round1(Signed16(LE16(mfg_data[5], mfg_data[6]))),
                 Round1(LE16(mfg_data[7], mfg_data[8])),
                 mfg_data[9])

(* Measurement.from_bytes of govee-h5075.py on the three bytes mfg_data[1:4] *)
SENTINEL == 16777215
Measurement_from_bytes(bytes) ==
    IF Len(bytes) # 3 THEN NoMeasurement
    ELSE LET packed == bytes[1] * 65536 + bytes[2] * 256 + bytes[3]
             neg == packed >= 8388608
             mag == IF neg THEN packed - 8388608 ELSE packed
         IN  IF packed = SENTINEL THEN NoMeasurement
             ELSE Decoded(IF neg THEN 0 - (mag % 1000) ELSE mag % 1000,
                          mag \div 1000, 0)

(* GoveeThermometerHygrometer.MAC_PREFIX of govee-h5075.py; the first two  *)
(* characters of a model address stand for the nine-character prefix.      *)
PrefixLen == 2
MAC_PREFIX == { <<"A","4">> }

-----------------------------------------------------------------------------
(* Scan window *)

(* A name is a sequence of chunks; "" (no name) is the empty sequence. *)
NameContains(name, chunk) == \E k \in DOMAIN name : name[k] = chunk

GoveeDevice(mac, name, t, h, b) ==
    [mac |-> mac, name |-> name, temperature |-> t, humidity |-> h, battery |-> b]

(* What the body of callback (after the first two conditions) computes:    *)
(* the decode outcome for one advertisement.                               *)
DecodeAd(ad) ==
    IF MFG_H5075 \in DOMAIN ad.manufacturer_data
    THEN LET mfg_data == ad.manufacturer_data[MFG_H5075]
         IN  IF NameContains(ad.name, "H5074")
             THEN decode_5074(mfg_data)
             ELSE LET m == Measurement_from_bytes(
                               SubSeq(mfg_data, 2, IF Len(mfg_data) < 4 THEN Len(mfg_data) ELSE 4))
                  IN  IF m.kind = "ok"
                      THEN IF Len(mfg_data) < 5 THEN Raised
                           ELSE Decoded(m.temperature, m.humidity, mfg_data[5])
                      ELSE NoMeasurement
    ELSE IF MFG_H5179 \in DOMAIN ad.manufacturer_data
    THEN decode_5179(ad.manufacturer_data[MFG_H5179])
    ELSE NoMeasurement

Eligible(ad) ==
    /\ ad.name # << >>
    /\ Prefix(Upper(ad.address), PrefixLen) \in MAC_PREFIX

(* AlreadyFound without the membership test of line 286 *)
AlreadyFound_Never(found, address) == FALSE

AlreadyFound(found, address) ==
    \E k \in DOMAIN found : found[k].mac = address

(* callback(device, advertising_data): the new value of found_devices *)
callback(found, ad) ==
    IF AlreadyFound(found, ad.address) THEN found
    ELSE IF ~Eligible(ad) THEN found
    ELSE LET d == DecodeAd(ad)
         IN  IF d.kind = "ok"
             THEN Append(found, GoveeDevice(ad.address, ad.name,
                                            d.temperature, d.humidity, d.battery))
             ELSE found

(* Sample advertisements *)
ADDR_A1 == <<"A","4","E","F">>
ADDR_a1 == <<"a","4","e","f">>
ADDR_A2 == <<"A","4","0","1">>
ADDR_X1 == <<"B","0","0","1">>

NAME_5075 == <<"GV","H5075","_1234">>
NAME_5074 == <<"Govee_","H5074","_AB">>
NAME_5179 == <<"GV","H5179","_77">>

Mfg(key, bytes) == [k \in {key} |-> bytes]
Ad(address, name, mfg) == [address |-> address, name |-> name, manufacturer_data |-> mfg]

SampleAds ==
    { Ad(ADDR_A1, NAME_5075, Mfg(MFG_H5075, <<0, 3, 151, 186, 88>>)),
      Ad(ADDR_A1, NAME_5075, Mfg(MFG_H5075, <<0, 255, 255, 255, 88>>)),
      Ad(ADDR_a1, NAME_5075, Mfg(MFG_H5075, <<0, 3, 151, 186, 88>>)),
      Ad(ADDR_A2, NAME_5074, Mfg(MFG_H5075, <<0, 46, 9, 148, 17, 64, 2>>)),
      Ad(ADDR_A2, NAME_5074, Mfg(MFG_H5075, <<0, 46, 9, 148>>)),
      Ad(ADDR_A2, NAME_5179, Mfg(MFG_H5179, <<1, 0, 1, 1, 56, 255, 148, 17, 200>>)),
      Ad(ADDR_X1, NAME_5075, Mfg(MFG_H5075, <<0, 3, 151, 186, 88>>)),
      Ad(ADDR_A1, << >>, Mfg(MFG_H5075, <<0, 3, 151, 186, 88>>)) }

-----------------------------------------------------------------------------
(* Remote service and records *)

EmptyMap == [x \in {} |-> 0]
MapPut(m, k, v) == [x \in DOMAIN m \cup {k} |-> IF x = k THEN v ELSE m[x]]

RDev(id, serial, params) == [id |-> id, serial_number |-> serial, parameters |-> params]
RParam(id, name) == [id |-> id, name |-> name]

(* A record as the client sees it.  The summary of GET /devices carries no *)
(* parameter list; the detail of GET /device/{id} does.                    *)
Summary(d) ==
    [id |-> d.id, serial_number |-> d.serial_number,
     has_parameters |-> FALSE, parameters |-> << >>]
Detail(d) ==
    [id |-> d.id, serial_number |-> d.serial_number,
     has_parameters |-> TRUE, parameters |-> d.parameters]

(* The service numbers new devices and new parameters after the highest   *)
(* id it holds.                                                            *)
MaxOf(S) == IF S = {} THEN 0 ELSE CHOOSE x \in S : \A y \in S : x >= y
NewDeviceId(rem) == MaxOf({ rem[k].id : k \in DOMAIN rem }) + 1
NewParamId(rem) ==
    MaxOf(UNION { { rem[k].parameters[n].id : n \in DOMAIN rem[k].parameters } :
                  k \in DOMAIN rem }) + 1

RemoteWithParam(rem, device_id, name, pid) ==
    [k \in DOMAIN rem |->
        IF rem[k].id = device_id
        THEN [rem[k] EXCEPT !.parameters = Append(@, RParam(pid, name))]
        ELSE rem[k]]

InitRemotes ==
    { << >>,
      << RDev(1, ADDR_a1, << RParam(1, <<"T","e","m","p">>),
                             RParam(2, HUMIDITY) >>) >> }

DeviceTypeLists ==
    { << [id |-> 5, name |-> "bluetooth device"] >>,
      << [id |-> 3, name |-> "Sensor"], [id |-> 7, name |-> "Bluetooth device"] >> }

(* get_id_for_device_type: the loop over the decoded list response *)
get_id_for_device_type(device_types, type_name) ==
    IF \E k \in DOMAIN device_types : device_types[k].name = type_name
    THEN LET k == CHOOSE a \in DOMAIN device_types :
                     /\ device_types[a].name = type_name
                     /\ \A b \in DOMAIN device_types :
                            device_types[b].name = type_name => a <= b
         IN  device_types[k].id
    ELSE None

(* main(): mac_to_device built from api_devices, later records win *)
RECURSIVE BuildMacMap(_)
BuildMacMap(api_devices) ==
    IF api_devices = << >> THEN EmptyMap
    ELSE LET n == Len(api_devices)
             device == api_devices[n]
             rest == BuildMacMap(SubSeq(api_devices, 1, n - 1))
             mac == Upper(device.serial_number)
         IN  IF mac # << >> THEN MapPut(rest, mac, device) ELSE rest

(* main(): param_name_to_id built from existing_params, later records win *)
RECURSIVE BuildParamMap(_)
BuildParamMap(existing_params) ==
    IF existing_params = << >> THEN EmptyMap
    ELSE LET n == Len(existing_params)
             param == existing_params[n]
         IN  MapPut(BuildParamMap(SubSeq(existing_params, 1, n - 1)),
                    Lower(param.name), param.id)

(* MacKey without .upper() *)
MacKey_NoUpper(mac) == mac

MacKey(mac) == Upper(mac)

-----------------------------------------------------------------------------
(* History helpers *)

Req(op, mac, id, name, res) ==
    [op |-> op, mac |-> mac, id |-> id, name |-> name, res |-> res]

Logged(r) == reqLog' = Append(reqLog, r)

Fault == faults < MaxFaults /\ faults' = faults + 1
NoFault == faults' = faults

Exit(code, byException) ==
    /\ pc' = "exit"
    /\ exit_code' = code
    /\ aborted' = byException

NoCall == [parameter_id |-> 0, data_points |-> << >>, retries |-> 0,
           attempt |-> 0, caller |-> "none", result |-> "none",
           last |-> "none"]

-----------------------------------------------------------------------------
(* main(): configuration check and scan *)

(* ConfigMissing as if line 345 were absent *)
ConfigMissing_Never(key) == FALSE

(* `not API_KEY` *)
ConfigMissing(key) == key = ""

Start ==
    /\ pc = "main"
    /\ IF ConfigMissing(API_KEY)
       THEN Exit(EXIT_FAILURE, FALSE)
       ELSE pc' = "scan" /\ UNCHANGED << exit_code, aborted >>
    /\ UNCHANGED << API_KEY, stdout, interrupted, adLog, found_devices,
                    scanned_devices, remote,
                    remote0, devices, detailed_devices, mac_to_device,
                    bt_device_type_id, i, j, param_name_to_id,
                    device_parameters, overall_success, call, reqLog,
                    postCalls, run, firstRunComplete, faults, step >>

ScanEvent ==
    /\ pc = "scan"
    /\ Len(adLog) < MaxEvents
    /\ \E ad \in SampleAds :
          /\ found_devices' = callback(found_devices, ad)
          /\ adLog' = Append(adLog, ad)
    /\ UNCHANGED << pc, API_KEY, stdout, interrupted, scanned_devices, remote,
                    remote0, devices,
                    detailed_devices, mac_to_device, bt_device_type_id, i, j,
                    param_name_to_id, device_parameters, overall_success,
                    exit_code, aborted, call, reqLog, postCalls, run,
                    firstRunComplete, faults, step >>

(* NoDevices as if line 353 were absent *)
NoDevices_Never(scanned) == FALSE

(* `not scanned_devices` *)
NoDevices(scanned) == scanned = << >>

(* GoveeDevice.to_dict without the timestamp, and the array of line 358 *)
to_dict(device) ==
    [mac |-> device.mac, name |-> device.name,
     temperature |-> device.temperature, humidity |-> device.humidity,
     battery |-> device.battery]
JsonOf(scanned) == [k \in DOMAIN scanned |-> to_dict(scanned[k])]

(* print() of a document on the primary output, after the requests of log *)
Printed(doc, log) == [doc |-> doc, after |-> Len(log)]

ScanComplete ==
    /\ pc = "scan"
    /\ scanned_devices' = found_devices
    /\ found_devices' = << >>
    /\ adLog' = << >>
    /\ IF NoDevices(found_devices)
       THEN Exit(EXIT_SUCCESS, FALSE) /\ UNCHANGED << step, stdout >>
       ELSE /\ stdout' = Append(stdout, Printed(JsonOf(found_devices), reqLog))
            /\ pc' = "get_devices" /\ step' = 1
            /\ UNCHANGED << exit_code, aborted >>
    /\ UNCHANGED << API_KEY, interrupted, remote, remote0, devices, detailed_devices,
                    mac_to_device, bt_device_type_id, i, j, param_name_to_id,
                    device_parameters, overall_success, call, reqLog,
                    postCalls, run, firstRunComplete, faults >>

-----------------------------------------------------------------------------
(* Step 1: get_devices *)

(* OnInventoryFailure as if get_devices returned [] instead of raising *)
OnInventoryFailure_Swallowed ==
    /\ pc' = "device_type"
    /\ step' = 2
    /\ devices' = << >>
    /\ detailed_devices' = << >>
    /\ mac_to_device' = EmptyMap
    /\ UNCHANGED << exit_code, aborted >>

(* get_devices raised: main() leaves through `except Exception` *)
OnInventoryFailure ==
    /\ Exit(EXIT_FAILURE, TRUE)
    /\ UNCHANGED << devices, detailed_devices, mac_to_device, step >>

GetDevices ==
    /\ pc = "get_devices"
    /\ \/ /\ Fault
          /\ Logged(Req("get_devices", << >>, 0, << >>, "fail"))
          /\ OnInventoryFailure
       \/ /\ NoFault
          /\ Logged(Req("get_devices", << >>, 0, << >>, "ok"))
          /\ devices' = [k \in DOMAIN remote |-> Summary(remote[k])]
          /\ detailed_devices' = << >>
          /\ IF remote = << >>
             THEN /\ pc' = "device_type" /\ step' = 2
                  /\ mac_to_device' = BuildMacMap(<< >>)
             ELSE pc' = "detail" /\ UNCHANGED << mac_to_device, step >>
          /\ UNCHANGED << exit_code, aborted >>
    /\ UNCHANGED << API_KEY, stdout, interrupted, adLog, found_devices,
                    scanned_devices, remote,
                    remote0, bt_device_type_id, i, j, param_name_to_id,
                    device_parameters, overall_success, call, postCalls, run,
                    firstRunComplete >>

(* OnDetailFailure without the append of line 166 *)
OnDetailFailure_Dropped(detailed, device) == detailed

(* the inner `except Exception`: the summary record stands in *)
OnDetailFailure(detailed, device) == Append(detailed, device)

GetDeviceDetail ==
    /\ pc = "detail"
    /\ LET k == Len(detailed_devices) + 1
           device == devices[k]
           Collected(next) ==
               /\ detailed_devices' = next
               /\ IF k = Len(devices)
                  THEN /\ pc' = "device_type" /\ step' = 2
                       /\ mac_to_device' = BuildMacMap(next)
                  ELSE UNCHANGED << pc, mac_to_device, step >>
       IN  \/ /\ NoFault
              /\ Logged(Req("get_device", << >>, device.id, << >>, "ok"))
              /\ Collected(Append(detailed_devices, Detail(remote[k])))
           \/ /\ Fault
              /\ Logged(Req("get_device", << >>, device.id, << >>, "fail"))
              /\ Collected(OnDetailFailure(detailed_devices, device))
           \/ /\ Fault
              /\ Logged(Req("get_device", << >>, device.id, << >>, "no_device"))
              /\ Collected(Append(detailed_devices, device))
    /\ UNCHANGED << API_KEY, stdout, interrupted, adLog, found_devices,
                    scanned_devices, remote,
                    remote0, devices, bt_device_type_id, i, j,
                    param_name_to_id, device_parameters, overall_success,
                    exit_code, aborted, call, postCalls, run,
                    firstRunComplete >>

-----------------------------------------------------------------------------
(* Step 2: device type *)

GetDeviceType ==
    /\ pc = "device_type"
    /\ \/ /\ Fault
          /\ Logged(Req("get_device_types", << >>, 0, << >>, "fail"))
          /\ bt_device_type_id' = None
       \/ \E device_types \in DeviceTypeLists :
             LET id == get_id_for_device_type(device_types, BT_DEVICE_TYPE_NAME)
             IN  /\ IF id = None THEN Fault ELSE NoFault
                 /\ Logged(Req("get_device_types", << >>, 0, << >>, "ok"))
                 /\ bt_device_type_id' = id
    /\ pc' = "insert_devices"
    /\ step' = 3
    /\ i' = 1
    /\ UNCHANGED << API_KEY, stdout, interrupted, adLog, found_devices,
                    scanned_devices, remote,
                    remote0, devices, detailed_devices, mac_to_device, j,
                    param_name_to_id, device_parameters, overall_success,
                    exit_code, aborted, call, postCalls, run,
                    firstRunComplete >>

-----------------------------------------------------------------------------
(* Step 3: insert missing devices *)

(* SkipInsert without the None test of line 387 *)
SkipInsert_Never(type_id) == FALSE

SkipInsert(type_id) == type_id = None

(* `for scanned in scanned_devices` of step 3 moves on *)
NextInsert ==
    IF i = Len(scanned_devices)
    THEN pc' = "check_params" /\ step' = 4 /\ i' = 1
    ELSE pc' = pc /\ i' = i + 1 /\ UNCHANGED step

(* InsertCreated without the assignment of line 398 *)
InsertCreated_Dropped(map, mac_upper, new_device) == map

(* mac_to_device after create_device returned new_device *)
InsertCreated(map, mac_upper, new_device) == MapPut(map, mac_upper, new_device)

InsertDevice ==
    /\ pc = "insert_devices"
    /\ LET scanned == scanned_devices[i]
           mac_upper == MacKey(scanned.mac)
           created == RDev(NewDeviceId(remote), scanned.mac, << >>)
       IN  IF mac_upper \in DOMAIN mac_to_device \/ SkipInsert(bt_device_type_id)
           THEN /\ NoFault
                /\ UNCHANGED << remote, mac_to_device, reqLog >>
           ELSE \/ /\ Fault
                   /\ Logged(Req("create_device", scanned.mac, 0, << >>, "fail"))
                   /\ UNCHANGED << remote, mac_to_device >>
                \/ /\ NoFault
                   /\ Logged(Req("create_device", scanned.mac, created.id, << >>, "ok"))
                   /\ remote' = Append(remote, created)
                   /\ mac_to_device' =
                          InsertCreated(mac_to_device, mac_upper, Detail(created))
                \/ /\ Fault
                   /\ Logged(Req("create_device", scanned.mac, created.id, << >>, "no_parameters"))
                   /\ remote' = Append(remote, created)
                   /\ mac_to_device' =
                          InsertCreated(mac_to_device, mac_upper, Summary(created))
                \/ /\ Fault
                   /\ Logged(Req("create_device", scanned.mac, created.id, << >>, "no_device"))
                   /\ remote' = Append(remote, created)
                   /\ UNCHANGED mac_to_device
    /\ NextInsert
    /\ UNCHANGED << API_KEY, stdout, interrupted, adLog, found_devices,
                    scanned_devices, remote0,
                    devices, detailed_devices, bt_device_type_id, j,
                    param_name_to_id, device_parameters, overall_success,
                    exit_code, aborted, call, postCalls, run,
                    firstRunComplete >>

-----------------------------------------------------------------------------
(* Step 4: check device parameters *)

(* NextCheck as if steps 3 and 4 were one loop over the devices *)
NextCheck_Interleaved ==
    IF i = Len(scanned_devices)
    THEN /\ pc' = "timeseries" /\ step' = 5
         /\ i' = 1 /\ j' = 1 /\ overall_success' = TRUE
    ELSE /\ pc' = "insert_devices" /\ i' = i + 1 /\ j' = 1
         /\ UNCHANGED << overall_success, step >>

(* `for scanned in scanned_devices` of step 4 moves on; after the last     *)
(* device step 5 starts with overall_success = True.                       *)
NextCheck ==
    IF i = Len(scanned_devices)
    THEN /\ pc' = "timeseries" /\ step' = 5
         /\ i' = 1 /\ j' = 1 /\ overall_success' = TRUE
    ELSE /\ pc' = "check_params" /\ i' = i + 1 /\ j' = 1
         /\ UNCHANGED << overall_success, step >>

(* Head of one iteration: lines 414-429 *)
CheckParameters ==
    /\ pc = "check_params"
    /\ LET scanned == scanned_devices[i]
           mac_upper == MacKey(scanned.mac)
       IN  IF mac_upper \notin DOMAIN mac_to_device
           THEN /\ NextCheck
                /\ UNCHANGED << param_name_to_id, exit_code, aborted >>
           ELSE LET device == mac_to_device[mac_upper]
                IN  IF ~device.has_parameters
                    THEN /\ Exit(EXIT_FAILURE, TRUE)
                         /\ UNCHANGED << i, j, param_name_to_id, overall_success, step >>
                    ELSE /\ param_name_to_id' = BuildParamMap(device.parameters)
                         /\ pc' = "check_param"
                         /\ j' = 1
                         /\ UNCHANGED << i, overall_success, exit_code, aborted, step >>
    /\ UNCHANGED << API_KEY, stdout, interrupted, adLog, found_devices,
                    scanned_devices, remote,
                    remote0, devices, detailed_devices, mac_to_device,
                    bt_device_type_id, device_parameters, call, reqLog,
                    postCalls, run, firstRunComplete, faults >>

(* One iteration of `for param_name, unit in required_parameters.items()` *)
CheckParameter ==
    /\ pc = "check_param"
    /\ LET scanned == scanned_devices[i]
           mac_upper == MacKey(scanned.mac)
           device_id == mac_to_device[mac_upper].id
           param_name == required_parameters[j]
           new_id == NewParamId(remote)
           Done(p) ==
               /\ param_name_to_id' = p
               /\ IF j = Len(required_parameters)
                  THEN /\ device_parameters' = MapPut(device_parameters, mac_upper, p)
                       /\ NextCheck
                  ELSE /\ j' = j + 1
                       /\ UNCHANGED << pc, i, device_parameters, overall_success, step >>
       IN  IF param_name \in DOMAIN param_name_to_id
           THEN /\ NoFault
                /\ Done(param_name_to_id)
                /\ UNCHANGED << remote, reqLog >>
           ELSE \/ /\ Fault
                   /\ Logged(Req("create_parameter", << >>, device_id, param_name, "fail"))
                   /\ Done(param_name_to_id)
                   /\ UNCHANGED remote
                \/ /\ NoFault
                   /\ Logged(Req("create_parameter", << >>, device_id, param_name, "ok"))
                   /\ remote' = RemoteWithParam(remote, device_id, param_name, new_id)
                   /\ Done(MapPut(param_name_to_id, param_name, new_id))
                \/ /\ Fault
                   /\ Logged(Req("create_parameter", << >>, device_id, param_name, "no_parameter"))
                   /\ remote' = RemoteWithParam(remote, device_id, param_name, new_id)
                   /\ Done(param_name_to_id)
    /\ UNCHANGED << API_KEY, stdout, interrupted, adLog, found_devices,
                    scanned_devices, remote0,
                    devices, detailed_devices, mac_to_device,
                    bt_device_type_id, exit_code, aborted, call, postCalls,
                    run, firstRunComplete >>

-----------------------------------------------------------------------------
(* Step 5: time-series data, and post_timeseries_data *)

(* ExitCode without its failure branch *)
ExitCode_AlwaysSuccess(success) == EXIT_SUCCESS

ExitCode(success) == IF success THEN EXIT_SUCCESS ELSE EXIT_FAILURE

(* NextPoint leaving both loops at the first failed post *)
NextPoint_StopOnFailure(whole, success) ==
    IF success /\ ~whole /\ j < Len(required_parameters)
    THEN /\ pc' = "timeseries" /\ j' = j + 1
         /\ UNCHANGED << i, exit_code, aborted >>
    ELSE IF success /\ i < Len(scanned_devices)
    THEN /\ pc' = "timeseries" /\ i' = i + 1 /\ j' = 1
         /\ UNCHANGED << exit_code, aborted >>
    ELSE /\ Exit(ExitCode(success), FALSE)
         /\ UNCHANGED << i, j >>

(* The two nested loops of step 5 move on from pair (i, j); `whole` is     *)
(* TRUE when the rest of the device is skipped.  After the last pair       *)
(* main() returns.                                                         *)
NextPoint(whole, success) ==
    IF ~whole /\ j < Len(required_parameters)
    THEN /\ pc' = "timeseries" /\ j' = j + 1
         /\ UNCHANGED << i, exit_code, aborted >>
    ELSE IF i < Len(scanned_devices)
    THEN /\ pc' = "timeseries" /\ i' = i + 1 /\ j' = 1
         /\ UNCHANGED << exit_code, aborted >>
    ELSE /\ Exit(ExitCode(success), FALSE)
         /\ UNCHANGED << i, j >>

ParameterData(scanned) ==
    << scanned.temperature, scanned.humidity, scanned.battery >>

Timeseries ==
    /\ pc = "timeseries"
    /\ LET scanned == scanned_devices[i]
           mac_upper == MacKey(scanned.mac)
           param_name == required_parameters[j]
       IN  IF mac_upper \notin DOMAIN device_parameters
           THEN /\ NextPoint(TRUE, overall_success)
                /\ UNCHANGED << call, postCalls >>
           ELSE IF param_name \notin DOMAIN device_parameters[mac_upper]
           THEN /\ NextPoint(FALSE, overall_success)
                /\ UNCHANGED << call, postCalls >>
           ELSE /\ call' = [parameter_id |-> device_parameters[mac_upper][param_name],
                            data_points |-> << ParameterData(scanned)[j] >>,
                            retries |-> MAIN_POST_RETRIES,
                            attempt |-> 0,
                            caller |-> "main",
                            result |-> "none",
                            last |-> "none"]
                /\ postCalls' = Append(postCalls,
                       [i |-> i, name |-> param_name,
                        parameter_id |-> device_parameters[mac_upper][param_name],
                        points |-> 1, attempts |-> 0, result |-> "none"])
                /\ pc' = "post"
                /\ UNCHANGED << i, j, exit_code, aborted >>
    /\ UNCHANGED << API_KEY, stdout, interrupted, adLog, found_devices,
                    scanned_devices, remote,
                    remote0, devices, detailed_devices, mac_to_device,
                    bt_device_type_id, param_name_to_id, device_parameters,
                    overall_success, reqLog, run, firstRunComplete, faults,
                    step >>

(* Outcomes of one request attempt of post_timeseries_data *)
PostOutcomes == { "ok", "ok_errors", "bad_body", "http_error", "transport" }
Transmitted(o) == o # "transport"
StatusOk(o) == o \in { "ok", "ok_errors", "bad_body" }
(* the try block reaches `return True` *)
AttemptReturns(o) == o \in { "ok", "ok_errors" }

(* RetriesExhausted with >= for > *)
RetriesExhausted_OffByOne(attempt, retries) == attempt >= retries

RetriesExhausted(attempt, retries) == attempt > retries

(* post_timeseries_data returned `result` after an attempt with outcome o *)
PostReturn(result, o) ==
    /\ call' = [call EXCEPT !.result = IF result THEN "true" ELSE "false",
                            !.attempt = IF result THEN @ ELSE @ + 1,
                            !.last = o]
    /\ postCalls' = [postCalls EXCEPT ![Len(postCalls)].result =
                         IF result THEN "true" ELSE "false",
                         ![Len(postCalls)].attempts = @ + 1]
    /\ IF call.caller = "main"
       THEN /\ overall_success' = (IF result THEN overall_success ELSE FALSE)
            /\ NextPoint(FALSE, overall_success')
       ELSE /\ pc' = "returned"
            /\ UNCHANGED << i, j, overall_success, exit_code, aborted >>

PostAttempt ==
    /\ pc = "post"
    /\ call.attempt <= call.retries
    /\ \E o \in PostOutcomes :
          IF AttemptReturns(o)
          THEN /\ NoFault
               /\ Logged(Req("post", << >>, call.parameter_id, << >>, "ok"))
               /\ PostReturn(TRUE, o)
          ELSE /\ IF call.attempt = 0 THEN Fault ELSE NoFault
               /\ Logged(Req("post", << >>, call.parameter_id, << >>, "fail"))
               /\ IF RetriesExhausted(call.attempt + 1, call.retries)
                  THEN PostReturn(FALSE, o)
                  ELSE /\ call' = [call EXCEPT !.attempt = @ + 1, !.last = o]
                       /\ postCalls' = [postCalls EXCEPT
                              ![Len(postCalls)].attempts = @ + 1]
                       /\ UNCHANGED << pc, i, j, overall_success,
                                       exit_code, aborted >>
    /\ UNCHANGED << API_KEY, stdout, interrupted, adLog, found_devices,
                    scanned_devices, remote,
                    remote0, devices, detailed_devices, mac_to_device,
                    bt_device_type_id, param_name_to_id, device_parameters,
                    run, firstRunComplete, step >>

-----------------------------------------------------------------------------
(* The program is run again after a run that completed its device and      *)
(* parameter creations; the scan window records the same devices.          *)

RunComplete ==
    /\ pc = "exit"
    /\ ~aborted
    /\ scanned_devices # << >>
    /\ \A k \in DOMAIN scanned_devices :
          /\ MacKey(scanned_devices[k].mac) \in DOMAIN device_parameters
          /\ \A n \in DOMAIN required_parameters :
                required_parameters[n] \in
                    DOMAIN device_parameters[MacKey(scanned_devices[k].mac)]

Rerun ==
    /\ pc = "exit"
    /\ run < MaxRuns
    /\ RunComplete
    /\ firstRunComplete' = TRUE
    /\ run' = run + 1
    /\ pc' = "get_devices"
    /\ step' = 1
    /\ remote0' = remote
    /\ devices' = << >>
    /\ detailed_devices' = << >>
    /\ mac_to_device' = EmptyMap
    /\ bt_device_type_id' = None
    /\ i' = 1
    /\ j' = 1
    /\ param_name_to_id' = EmptyMap
    /\ device_parameters' = EmptyMap
    /\ overall_success' = TRUE
    /\ exit_code' = NoExit
    /\ aborted' = FALSE
    /\ call' = NoCall
    /\ reqLog' = << >>
    /\ postCalls' = << >>
    /\ stdout' = << Printed(JsonOf(scanned_devices), << >>) >>
    /\ UNCHANGED << API_KEY, interrupted, adLog, found_devices,
                    scanned_devices, remote, faults >>

-----------------------------------------------------------------------------
(* The program *)

InitEngine ==
    /\ adLog = << >>
    /\ found_devices = << >>
    /\ scanned_devices = << >>
    /\ devices = << >>
    /\ detailed_devices = << >>
    /\ mac_to_device = EmptyMap
    /\ bt_device_type_id = None
    /\ i = 1
    /\ j = 1
    /\ param_name_to_id = EmptyMap
    /\ device_parameters = EmptyMap
    /\ overall_success = TRUE
    /\ exit_code = NoExit
    /\ aborted = FALSE
    /\ reqLog = << >>
    /\ run = 1
    /\ firstRunComplete = FALSE
    /\ faults = 0
    /\ step = 0
    /\ stdout = << >>
    /\ interrupted = None

Init ==
    /\ pc = "main"
    /\ API_KEY \in { "", "key" }
    /\ remote \in InitRemotes
    /\ remote0 = remote
    /\ call = NoCall
    /\ postCalls = << >>
    /\ InitEngine

Next ==
    \/ Start
    \/ ScanEvent
    \/ ScanComplete
    \/ GetDevices
    \/ GetDeviceDetail
    \/ GetDeviceType
    \/ InsertDevice
    \/ CheckParameters
    \/ CheckParameter
    \/ Timeseries
    \/ PostAttempt
    \/ Rerun

Spec == Init /\ [][Next]_vars

-----------------------------------------------------------------------------
(* KeyboardInterrupt *)

KeyboardInterrupt == "KeyboardInterrupt"

(* IsException as if KeyboardInterrupt derived from Exception *)
IsException_Any(exc) == TRUE

(* what `except Exception` catches: KeyboardInterrupt derives from         *)
(* BaseException and is not caught                                         *)
IsException(exc) == exc # KeyboardInterrupt

(* positions inside the try block of main() *)
InTry ==
    { "scan", "get_devices", "detail", "device_type", "insert_devices",
      "check_params", "check_param", "timeseries", "post" }

(* positions whose request runs under an `except Exception` clause that    *)
(* does not re-raise: lines 164, 377, 400, 444 and 244                     *)
ContainedAt == { "detail", "device_type", "insert_devices", "check_param", "post" }

(* KeyboardInterrupt is raised at the current position: in the scan window *)
(* or in the request about to be answered.  A clause that catches it       *)
(* treats it as the failure of that request and the run goes on; otherwise *)
(* it reaches line 489.                                                    *)
Interrupt ==
    /\ pc \in InTry
    /\ interrupted = None
    /\ interrupted' = Len(reqLog)
    /\ IF pc \in ContainedAt /\ IsException(KeyboardInterrupt)
       THEN UNCHANGED << pc, exit_code, aborted >>
       ELSE Exit(EXIT_FAILURE, FALSE)
    /\ UNCHANGED << API_KEY, stdout, adLog, found_devices, scanned_devices,
                    remote, remote0, devices, detailed_devices, mac_to_device,
                    bt_device_type_id, i, j, param_name_to_id,
                    device_parameters, overall_success, call, reqLog,
                    postCalls, run, firstRunComplete, faults, step >>

(* one run of main() during which KeyboardInterrupt may be raised *)
NextInt ==
    \/ Start
    \/ ScanEvent
    \/ ScanComplete
    \/ GetDevices
    \/ GetDeviceDetail
    \/ GetDeviceType
    \/ InsertDevice
    \/ CheckParameters
    \/ CheckParameter
    \/ Timeseries
    \/ PostAttempt
    \/ Interrupt

SpecInt == Init /\ [][NextInt]_vars

(* post_timeseries_data called on its own, for every retries in 0..MaxRetries *)
PostParameterIds == { 11, 12, 13 }

InitPost ==
    /\ pc = "post"
    /\ API_KEY = "key"
    /\ remote = << >>
    /\ remote0 = remote
    /\ \E parameter_id \in PostParameterIds, retries \in 0 .. MaxRetries :
          /\ call = [parameter_id |-> parameter_id, data_points |-> << 235 >>,
                     retries |-> retries, attempt |-> 0, caller |-> "direct",
                     result |-> "none", last |-> "none"]
          /\ postCalls = << [i |-> 0, name |-> << >>, parameter_id |-> parameter_id,
                             points |-> 1, attempts |-> 0, result |-> "none"] >>
    /\ InitEngine

NextPost == PostAttempt

SpecPost == InitPost /\ [][NextPost]_vars

-----------------------------------------------------------------------------
(* The callback on one advertisement of the H5179 format, for every        *)
(* combination of the byte values below and for a payload cut short.       *)

TempLow == { 0, 1, 5, 251, 255 }
TempHigh == { 0, 127, 128, 255 }
HumLow == { 0, 148 }
HumHigh == { 0, 17, 255 }
BatteryBytes == { 0, 100, 200 }

Payload5179(tl, th, hl, hh, b) == << 1, 0, 1, 1, tl, th, hl, hh, b >>

DecodeAds ==
    { Ad(ADDR_A2, NAME_5179, Mfg(MFG_H5179, Payload5179(tl, th, hl, hh, b))) :
          tl \in TempLow, th \in TempHigh, hl \in HumLow, hh \in HumHigh,
          b \in BatteryBytes }
    \cup { Ad(ADDR_A2, NAME_5179, Mfg(MFG_H5179, << 1, 0, 1, 1, 56, 255, 148, 17 >>)) }

InitDecode ==
    /\ pc = "scan"
    /\ API_KEY = "key"
    /\ remote = << >>
    /\ remote0 = remote
    /\ call = NoCall
    /\ postCalls = << >>
    /\ InitEngine

DecodeEvent ==
    /\ pc = "scan"
    /\ adLog = << >>
    /\ \E ad \in DecodeAds :
          /\ found_devices' = callback(found_devices, ad)
          /\ adLog' = << ad >>
    /\ UNCHANGED << pc, API_KEY, stdout, interrupted, scanned_devices, remote,
                    remote0, devices, detailed_devices, mac_to_device,
                    bt_device_type_id, i, j, param_name_to_id,
                    device_parameters, overall_success, exit_code, aborted,
                    call, reqLog, postCalls, run, firstRunComplete, faults,
                    step >>

NextDecode == DecodeEvent

SpecDecode == InitDecode /\ [][NextDecode]_vars

-----------------------------------------------------------------------------
(* Properties *)

(* C1: in a run that reached step 5, main() returns EXIT_SUCCESS if and    *)
(* only if every post_timeseries_data call of the run returned True; a     *)
(* skipped device or parameter alone never makes the status a failure.     *)
C1_ExitIffAllPostsTrue ==
    (pc = "exit" /\ step = 5) =>
        ( exit_code = EXIT_SUCCESS <=>
          \A k \in DOMAIN postCalls : postCalls[k].result = "true" )

(* a run with a skipped device and successful posts that returned 0 *)
C1_Witness ==
    /\ pc = "exit" /\ step = 5
    /\ exit_code = EXIT_SUCCESS
    /\ postCalls # << >>
    /\ \E k \in DOMAIN scanned_devices :
          MacKey(scanned_devices[k].mac) \notin DOMAIN device_parameters

(* C2: post_timeseries_data with retries = n makes between 1 and n + 1     *)
(* sequential attempts, makes none after an attempt that succeeded,        *)
(* returns True only after an attempt that was transmitted and got a       *)
(* non-error status, and returns False exactly when all n + 1 attempts     *)
(* failed; with n = 1, a failure then a success is True after two          *)
(* attempts.                                                               *)
C2_RetryContract ==
    LET n == call.retries
        made == Len(reqLog)
        failed(k) == reqLog[k].res = "fail"
    IN  (call.caller = "direct") =>
          /\ made <= n + 1
          /\ \A k \in 1 .. made - 1 : failed(k)
          /\ (pc = "returned") =>
                /\ made >= 1
                /\ (call.result = "true") =>
                      /\ ~failed(made)
                      /\ Transmitted(call.last) /\ StatusOk(call.last)
                /\ (call.result = "false") <=>
                      (made = n + 1 /\ \A k \in 1 .. made : failed(k))
                /\ call.result \in { "true", "false" }
          /\ (pc # "returned") => (call.result = "none" /\ made <= n)

(* retries = 1: first attempt failed, second succeeded, True after two *)
C2_Witness ==
    /\ pc = "returned" /\ call.caller = "direct"
    /\ call.retries = 1
    /\ Len(reqLog) = 2
    /\ reqLog[1].res = "fail" /\ reqLog[2].res = "ok"
    /\ call.result = "true"

(* C5: when the list request of get_devices fails, main() returns          *)
(* EXIT_FAILURE and issues no other request.                               *)
C5_InventoryFailureAborts ==
    (reqLog # << >> /\ reqLog[1].op = "get_devices" /\ reqLog[1].res = "fail") =>
        /\ pc = "exit"
        /\ exit_code = EXIT_FAILURE
        /\ Len(reqLog) = 1
        /\ postCalls = << >>

C5_Witness ==
    /\ pc = "exit"
    /\ reqLog = << Req("get_devices", << >>, 0, << >>, "fail") >>
    /\ exit_code = EXIT_FAILURE

C4_EndToEndCreation ==
    LET writes == SelectSeq(reqLog, LAMBDA r :
                      r.op \in { "create_device", "create_parameter", "post" })
        mac == scanned_devices[1].mac
        unmatched == \A k \in DOMAIN remote0 :
                        Upper(remote0[k].serial_number) # Upper(mac)
        new_id == NewDeviceId(remote0)
        first_param == NewParamId(remote0)
    IN  ( /\ pc = "exit"
          /\ Len(scanned_devices) = 1
          /\ unmatched
          /\ step >= 3 /\ bt_device_type_id # None
          /\ \A k \in DOMAIN reqLog : reqLog[k].res = "ok" ) =>
        /\ exit_code = EXIT_SUCCESS
        /\ writes = << Req("create_device", mac, new_id, << >>, "ok"),
                       Req("create_parameter", << >>, new_id, TEMPERATURE, "ok"),
                       Req("create_parameter", << >>, new_id, HUMIDITY, "ok"),
                       Req("create_parameter", << >>, new_id, BATTERY, "ok"),
                       Req("post", << >>, first_param, << >>, "ok"),
                       Req("post", << >>, first_param + 1, << >>, "ok"),
                       Req("post", << >>, first_param + 2, << >>, "ok") >>
        /\ \E k \in DOMAIN remote :
              /\ remote[k].id = new_id
              /\ remote[k].serial_number = mac
              /\ remote[k].parameters =
                     << RParam(first_param, TEMPERATURE),
                        RParam(first_param + 1, HUMIDITY),
                        RParam(first_param + 2, BATTERY) >>

(* such a run next to another, unrelated remote device *)
C4_Witness ==
    /\ pc = "exit" /\ step = 5
    /\ Len(scanned_devices) = 1
    /\ Len(remote0) = 1
    /\ Upper(remote0[1].serial_number) # Upper(scanned_devices[1].mac)
    /\ bt_device_type_id # None
    /\ \A k \in DOMAIN reqLog : reqLog[k].res = "ok"
    /\ Len(postCalls) = 3

(* C6: an unresolved device type id does not abort the run (main() never   *)
(* returns from step 2) and no create_device request is issued; discovered *)
(* devices that exist remotely still get their missing parameters          *)
(* requested and their points posted; when no discovered device exists     *)
(* remotely nothing is created or posted and the status is 0.              *)
C6_UnresolvedType ==
    LET unresolved == step >= 3 /\ bt_device_type_id = None
        known(k) == MacKey(scanned_devices[k].mac) \in DOMAIN mac_to_device
        rec(k) == mac_to_device[MacKey(scanned_devices[k].mac)]
        requested(id, name) ==
            \E r \in DOMAIN reqLog :
                /\ reqLog[r].op = "create_parameter"
                /\ reqLog[r].id = id /\ reqLog[r].name = name
        posted(k, name) ==
            \E c \in DOMAIN postCalls :
                postCalls[c].i = k /\ postCalls[c].name = name
    IN  /\ (pc = "exit") => step # 2
        /\ unresolved =>
              /\ \A r \in DOMAIN reqLog : reqLog[r].op # "create_device"
              /\ (pc = "exit" /\ step = 5) =>
                    \A k \in DOMAIN scanned_devices : known(k) =>
                        \A n \in DOMAIN required_parameters :
                            LET name == required_parameters[n]
                                mac == MacKey(scanned_devices[k].mac)
                            IN  /\ name \notin DOMAIN BuildParamMap(rec(k).parameters)
                                      => requested(rec(k).id, name)
                                /\ name \in DOMAIN device_parameters[mac]
                                      => posted(k, name)
              /\ (pc = "exit" /\ \A k \in DOMAIN scanned_devices : ~known(k)) =>
                    /\ \A r \in DOMAIN reqLog : reqLog[r].op # "create_parameter"
                    /\ postCalls = << >>
                    /\ exit_code = EXIT_SUCCESS
                    /\ ~aborted

(* type unresolved, an existing device got a parameter created and posted *)
C6_Witness ==
    /\ pc = "exit" /\ step = 5
    /\ bt_device_type_id = None
    /\ \E r \in DOMAIN reqLog :
          reqLog[r].op = "create_parameter" /\ reqLog[r].res = "ok"
    /\ Len(postCalls) >= 3
    /\ exit_code = EXIT_SUCCESS

(* C7 as stated: once the inventory is read, no failure while handling one *)
(* discovered device in steps 3 and 4 aborts the run; the run goes on to   *)
(* step 5 and the failure alone does not give a failure status.            *)
C7_FailuresContained ==
    (pc = "exit" /\ step >= 3) =>
        /\ ~aborted
        /\ step = 5
        /\ (\A c \in DOMAIN postCalls : postCalls[c].result = "true")
               => exit_code = EXIT_SUCCESS

(* C8: a post that failed after its retries does not end the run: every    *)
(* pair of a discovered device and a parameter with a known id is still    *)
(* posted, and the failure only makes the status EXIT_FAILURE.             *)
C8_PostFailureDoesNotAbort ==
    LET has_id(k, n) ==
            /\ MacKey(scanned_devices[k].mac) \in DOMAIN device_parameters
            /\ required_parameters[n] \in
                   DOMAIN device_parameters[MacKey(scanned_devices[k].mac)]
        posted(k, n) ==
            \E c \in DOMAIN postCalls :
                /\ postCalls[c].i = k
                /\ postCalls[c].name = required_parameters[n]
        handled(k, n) ==
            \/ pc = "exit"
            \/ k < i
            \/ k = i /\ n < j
            \/ k = i /\ n = j /\ pc = "post"
        some_failed == \E c \in DOMAIN postCalls : postCalls[c].result = "false"
    IN  (step = 5 /\ some_failed) =>
        /\ ~aborted
        /\ \A k \in DOMAIN scanned_devices, n \in DOMAIN required_parameters :
              (has_id(k, n) /\ handled(k, n)) => posted(k, n)
        /\ (pc = "exit") => exit_code = EXIT_FAILURE
        /\ (pc # "exit") => exit_code = NoExit

(* the first post failed and later pairs were posted successfully *)
C8_Witness ==
    /\ pc = "exit" /\ step = 5
    /\ Len(postCalls) >= 4
    /\ postCalls[1].result = "false"
    /\ postCalls[Len(postCalls)].result = "true"
    /\ exit_code = EXIT_FAILURE

(* C9 as stated: in one run post_timeseries_data is called at most once    *)
(* for any parameter id, each time with exactly one data point.            *)
C9_OnePointPerParameter ==
    /\ \A a, b \in DOMAIN postCalls :
          a # b => postCalls[a].parameter_id # postCalls[b].parameter_id
    /\ \A a \in DOMAIN postCalls : postCalls[a].points = 1

(* C10: during the scan window found_devices holds at most one device per  *)
(* address, with the name and values of the first eligible advertisement   *)
(* of that address that decoded to a measurement; an advertisement without *)
(* a measurement records nothing and a later one can still be recorded.    *)
C10_FirstDecodeWins ==
    LET good(n) == Eligible(adLog[n]) /\ DecodeAd(adLog[n]).kind = "ok"
        first(n) == /\ good(n)
                    /\ \A m \in 1 .. n - 1 :
                          adLog[m].address = adLog[n].address => ~good(m)
    IN  (pc = "scan") =>
        /\ \A a, b \in DOMAIN found_devices :
              a # b => found_devices[a].mac # found_devices[b].mac
        /\ \A k \in DOMAIN found_devices :
              \E n \in DOMAIN adLog :
                  /\ adLog[n].address = found_devices[k].mac
                  /\ first(n)
                  /\ found_devices[k] =
                         GoveeDevice(adLog[n].address, adLog[n].name,
                                     DecodeAd(adLog[n]).temperature,
                                     DecodeAd(adLog[n]).humidity,
                                     DecodeAd(adLog[n]).battery)
        /\ \A n \in DOMAIN adLog :
              good(n) => \E k \in DOMAIN found_devices :
                             found_devices[k].mac = adLog[n].address

(* two decodable advertisements of one address with different values *)
C10_Witness ==
    /\ pc = "scan"
    /\ Len(adLog) >= 2
    /\ adLog[1].address = adLog[2].address
    /\ DecodeAd(adLog[1]).kind = "ok" /\ DecodeAd(adLog[2]).kind = "ok"
    /\ DecodeAd(adLog[1]) # DecodeAd(adLog[2])
    /\ Len(found_devices) = 1
    /\ found_devices[1].temperature = DecodeAd(adLog[1]).temperature

(* C11: a scan window that records no device ends the run with             *)
(* EXIT_SUCCESS and without any request to the remote service.             *)
C11_ZeroDevicesIsSuccess ==
    (API_KEY # "" /\ pc \notin { "main", "scan" } /\ scanned_devices = << >>) =>
        /\ pc = "exit"
        /\ exit_code = EXIT_SUCCESS
        /\ ~aborted
        /\ reqLog = << >>
        /\ postCalls = << >>

(* the run returned after a window without a recorded device *)
C11_Witness ==
    /\ API_KEY # ""
    /\ pc = "exit"
    /\ scanned_devices = << >>
    /\ exit_code = EXIT_SUCCESS

(* C12: with an empty API key main() returns EXIT_FAILURE before the scan  *)
(* starts and before any request: no advertisement is handled, no request  *)
(* is issued and nothing is printed on the primary output.                 *)
C12_MissingKeyFailsFirst ==
    (API_KEY = "") =>
        /\ pc \in { "main", "exit" }
        /\ (pc = "exit") => (exit_code = EXIT_FAILURE /\ step = 0)
        /\ adLog = << >>
        /\ found_devices = << >>
        /\ scanned_devices = << >>
        /\ reqLog = << >>
        /\ postCalls = << >>
        /\ stdout = << >>

C12_Witness ==
    /\ API_KEY = ""
    /\ pc = "exit"
    /\ exit_code = EXIT_FAILURE

(* C13 as stated: once the configuration check is passed and the scan      *)
(* window is over, the JSON array of the discovered devices has been       *)
(* written to the primary output, before any request, whatever the number  *)
(* of discovered devices and whatever the requests do afterwards.          *)
C13_JsonAlwaysEmitted ==
    (API_KEY # "" /\ pc \notin { "main", "scan" }) =>
        stdout = << Printed(JsonOf(scanned_devices), << >>) >>

(* C14: KeyboardInterrupt raised during the scan window or during a        *)
(* request (the detail fetches of get_devices and the attempts of          *)
(* post_timeseries_data included) makes main() return EXIT_FAILURE through *)
(* line 489: no `except Exception` clause takes it for the failure of a    *)
(* request, and no request is issued after it.                             *)
C14_InterruptAborts ==
    (interrupted # None) =>
        /\ pc = "exit"
        /\ exit_code = EXIT_FAILURE
        /\ ~aborted
        /\ Len(reqLog) = interrupted

(* raised in post_timeseries_data after a first failed attempt *)
C14_Witness ==
    /\ interrupted # None
    /\ pc = "exit"
    /\ call.caller = "main"
    /\ call.attempt = 1
    /\ call.result = "none"
    /\ exit_code = EXIT_FAILURE

C16_BatteryInRange ==
    /\ \A k \in DOMAIN found_devices : found_devices[k].battery \in 0 .. 100
    /\ \A k \in DOMAIN scanned_devices : scanned_devices[k].battery \in 0 .. 100

(* C17 as stated: the recorded temperature is exactly raw / 100, or the    *)
(* negative value (raw - 65536) / 100 when the top bit is set; the         *)
(* humidity is exactly raw / 100 and the battery is byte 8.  Values are in *)
(* tenths, fields in hundredths.                                           *)
C17_DecodeExact ==
    \A k \in DOMAIN found_devices :
        LET p == adLog[1].manufacturer_data[MFG_H5179]
            raw == p[5] + 256 * p[6]
            hum == p[7] + 256 * p[8]
        IN  /\ raw < 32768 => 10 * found_devices[k].temperature = raw
            /\ raw >= 32768 =>
                  /\ 10 * found_devices[k].temperature = raw - 65536
                  /\ found_devices[k].temperature < 0
            /\ 10 * found_devices[k].humidity = hum
            /\ found_devices[k].battery = p[9]

(* C17 amended: every payload of at least 9 bytes is decoded; the recorded *)
(* temperature is a tenth nearest to raw / 100, not negative, when         *)
(* raw < 32768, and a tenth nearest to (raw - 65536) / 100, not positive,  *)
(* when the top bit is set; the humidity is a tenth nearest to the         *)
(* unsigned raw / 100 and the battery is byte 8.                           *)
C17_DecodeRounded ==
    (adLog # << >>) =>
        LET p == adLog[1].manufacturer_data[MFG_H5179]
            raw == p[5] + 256 * p[6]
            hum == p[7] + 256 * p[8]
        IN  IF Len(p) < 9 THEN found_devices = << >>
            ELSE /\ Len(found_devices) = 1
                 /\ LET d == found_devices[1]
                    IN  /\ raw < 32768 =>
                              /\ (10 * d.temperature - raw) \in -5 .. 5
                              /\ d.temperature >= 0
                        /\ raw >= 32768 =>
                              /\ (10 * d.temperature - (raw - 65536)) \in -5 .. 5
                              /\ d.temperature <= 0
                        /\ (10 * d.humidity - hum) \in -5 .. 5
                        /\ d.humidity >= 0
                        /\ d.battery = p[9]

(* top bit set, not a whole number of tenths, recorded as a negative value *)
C17_Witness ==
    /\ adLog # << >>
    /\ Len(found_devices) = 1
    /\ adLog[1].manufacturer_data[MFG_H5179][6] >= 128
    /\ (adLog[1].manufacturer_data[MFG_H5179][5]
           + 256 * adLog[1].manufacturer_data[MFG_H5179][6]) % 10 # 0
    /\ found_devices[1].temperature < 0

(* C18: the requests of a run follow the phases in order and never go      *)
(* back: the device list and the detail fetches, then the device-type      *)
(* lookup, then every create_device, then every create_parameter, then     *)
(* every time-series post; no request belongs to a phase the run has not   *)
(* reached.  Every request is a blocking call that is one step here, so    *)
(* no state has two requests in flight.                                    *)
C18_PhasesSequential ==
    LET phase(op) ==
            CASE op = "get_devices" -> 1
              [] op = "get_device" -> 1
              [] op = "get_device_types" -> 2
              [] op = "create_device" -> 3
              [] op = "create_parameter" -> 4
              [] op = "post" -> 5
    IN  /\ \A a \in 1 .. Len(reqLog) - 1 :
              /\ phase(reqLog[a].op) <= phase(reqLog[a + 1].op)
              /\ reqLog[a + 1].op # "get_devices"
              /\ reqLog[a].op = "get_device_types"
                    => reqLog[a + 1].op # "get_device_types"
        /\ (reqLog # << >>) =>
              /\ reqLog[1].op = "get_devices"
              /\ phase(reqLog[Len(reqLog)].op) <= step

(* two devices: both created, their parameters created, their points posted *)
C18_Witness ==
    /\ pc = "exit" /\ step = 5
    /\ Cardinality({ a \in DOMAIN reqLog : reqLog[a].op = "create_device" }) = 2
    /\ Cardinality({ a \in DOMAIN reqLog : reqLog[a].op = "create_parameter" }) >= 4
    /\ Len(postCalls) >= 4

(* C19 as stated: create_parameter is requested only for the three         *)
(* required names, at most once per name and device in a run, and never    *)
(* for a name the device already has remotely, letter case aside; posts    *)
(* are made only for the three names.                                      *)
C19_ParameterNames ==
    LET names == { required_parameters[n] : n \in DOMAIN required_parameters }
        creates == { r \in DOMAIN reqLog : reqLog[r].op = "create_parameter" }
        had(id, name) ==
            \E k \in DOMAIN remote0 :
                /\ remote0[k].id = id
                /\ \E n \in DOMAIN remote0[k].parameters :
                      Lower(remote0[k].parameters[n].name) = Lower(name)
    IN  /\ \A r \in creates :
              /\ reqLog[r].name \in names
              /\ ~had(reqLog[r].id, reqLog[r].name)
              /\ \A q \in creates :
                    (q # r /\ reqLog[q].id = reqLog[r].id)
                        => reqLog[q].name # reqLog[r].name
        /\ \A c \in DOMAIN postCalls : postCalls[c].name \in names

(* C20: get_devices returns one record per device of the list response,    *)
(* in its order: the detail record when the detail fetch gave one, the     *)
(* summary record of the list when the fetch failed; it raises only when   *)
(* the list request failed, never for a detail fetch.                      *)
C20_GetDevicesRecords ==
    LET details == SelectSeq(reqLog, LAMBDA r : r.op = "get_device")
        ok(k) ==
            /\ details[k].id = devices[k].id
            /\ detailed_devices[k] =
                   IF details[k].res = "ok"
                   THEN [id |-> remote0[k].id,
                         serial_number |-> remote0[k].serial_number,
                         has_parameters |-> TRUE,
                         parameters |-> remote0[k].parameters]
                   ELSE devices[k]
    IN  /\ (step >= 1 /\ pc # "get_devices") =>
              /\ Len(detailed_devices) = Len(details)
              /\ \A k \in DOMAIN detailed_devices : ok(k)
        /\ (step >= 2) =>
              /\ Len(devices) = Len(remote0)
              /\ Len(detailed_devices) = Len(devices)
        /\ (pc = "exit" /\ step = 1) =>
              /\ aborted
              /\ reqLog = << Req("get_devices", << >>, 0, << >>, "fail") >>

(* two devices listed, the first detail fetched, the second fetch failed *)
C20_Witness ==
    /\ step >= 2
    /\ Len(devices) = 2
    /\ reqLog[2].op = "get_device" /\ reqLog[2].res = "ok"
    /\ reqLog[3].op = "get_device" /\ reqLog[3].res = "fail"
    /\ detailed_devices[1].has_parameters
    /\ detailed_devices[2] = devices[2]
    /\ ~aborted

(* C21 as stated: in post_timeseries_data an attempt that was transmitted  *)
(* and got a non-error status ends the call with True and without another  *)
(* attempt, whatever the body of the response: with an errors field, empty *)
(* or not JSON.                                                            *)
C21_BodyNeverFails ==
    (/\ call.caller = "direct"
     /\ call.last # "none"
     /\ Transmitted(call.last)
     /\ StatusOk(call.last)) =>
        /\ pc = "returned"
        /\ call.result = "true"
        /\ reqLog[Len(reqLog)].res = "ok"

====
